---- MODULE Spec2Model ----
(***************************************************************************)
(* Model of the sentence-tree editor (src/src/components/Editor.tsx).      *)
(*                                                                         *)
(* The state is the Editor component's TreeState (sentence, nodes, edges,  *)
(* nextId, selected, error, linking) and its viewport `dimensions`.        *)
(* Every action is one event handler together with the render and the      *)
(* layout effect (useEffect, lines 276-346) that React runs before the     *)
(* next event is handled.                                                  *)
(*                                                                         *)
(* Strings that the code inspects character by character (the sentence,    *)
(* node labels) are sequences of one-character strings.  Coordinates are   *)
(* pixels; the viewports are chosen so that every product and quotient of  *)
(* the layout is a whole number, and a step whose midpoint would not be a  *)
(* whole number of pixels is outside the model (see LayoutExact).          *)
(*                                                                         *)
(* Three variables are not fields of the component:                        *)
(*   crashed    the render threw (an edge without one of its nodes) and    *)
(*              the editor is unmounted; no handler runs any more;         *)
(*   projected  history: the pairs <<parent id, leaf id>> of the projected *)
(*              parents created since the last initialization;             *)
(*   events     the number of user events handled so far.                  *)
(***************************************************************************)
EXTENDS Integers, Sequences, FiniteSets, TLC

VARIABLES sentence, nodes, edges, nextId, selected, error, linking,
          dimensions, crashed, projected, events

vars == <<sentence, nodes, edges, nextId, selected, error, linking,
          dimensions, crashed, projected, events>>

\* TreeState without the viewport: what setState(prev => ...) reads and writes.
treeState == <<sentence, nodes, edges, nextId, selected, error, linking>>

-----------------------------------------------------------------------------
(* Bounds of the model *)

\* The number of user events of a run.
MaxEvents == 7

-----------------------------------------------------------------------------
(* Values *)

\* null / undefined of `linking` and `projectedParent`; node ids start at 1.
Null == 0

\* \s of the regular expression and of String.prototype.trim.
Whitespace == {" "}

\* Sentences typed into the input field.
Sentences ==
  { <<" ">>,
    <<"a">>,
    <<" ", "b", " ", " ", "a", " ">> }

\* Container widths reported by getBoundingClientRect (line 263).
ContainerWidths == {632, 1100}

\* Mouse positions of a node drag, as the resulting node position.
DragPositions == { [x |-> 100, y |-> 40] }

\* Mouse positions of a control-point drag, relative to the <svg>.
ControlPoints == { <<50, 50>>, <<200, 120>> }

\* Labels typed into a node's label field.
TypedLabels == { <<"S">> }

ErrNoSentence == "Please enter a sentence first"
ErrSelectTwo == "Select at least 2 nodes to create a parent"

\* The table with the phrases of N and V exchanged.
PROJECTING_POS_Exchanged ==
  [ N |-> <<"V", "P">>, V |-> <<"N", "P">>, A |-> <<"A", "P">>,
    P |-> <<"P", "P">>, Adv |-> <<"A", "d", "v", "P">> ]

\* The table with a phrase for every option of the POS <select>.
PROJECTING_POS_AllProject ==
  [ N |-> <<"N", "P">>, V |-> <<"V", "P">>, A |-> <<"A", "P">>,
    P |-> <<"P", "P">>, Adv |-> <<"A", "d", "v", "P">>,
    aux |-> <<"a", "u", "x", "P">>, Det |-> <<"D", "P">>,
    PNP |-> <<"P", "N", "P", "P">> ]

\* const PROJECTING_POS (line 40); labels are character sequences.
PROJECTING_POS ==
  [ N |-> <<"N", "P">>, V |-> <<"V", "P">>, A |-> <<"A", "P">>,
    P |-> <<"P", "P">>, Adv |-> <<"A", "d", "v", "P">> ]

\* const NON_PROJECTING_POS (line 41).
NON_PROJECTING_POS == {"aux", "Det", "PNP"}

\* The options of the POS <select> (lines 141-144): "" is the placeholder.
PosOptions == {""} \cup NON_PROJECTING_POS \cup DOMAIN PROJECTING_POS

\* The options picked where every handler of the editor takes part.
PosChoices == {"", "aux", "N", "V"}

-----------------------------------------------------------------------------
(* Helpers: Array.prototype.find, Math.min / max; filter is SelectSeq *)

\* nodes.find(n => n.id === id): the first match; HasNode says whether
\* find returns a node or undefined.
HasNode(ns, id) == \E i \in DOMAIN ns : ns[i].id = id

FindNode(ns, id) ==
  ns[CHOOSE i \in DOMAIN ns :
       /\ ns[i].id = id
       /\ \A j \in DOMAIN ns : ns[j].id = id => i <= j]

SetMin(S) == CHOOSE m \in S : \A v \in S : m <= v
SetMax(S) == CHOOSE m \in S : \A v \in S : m >= v

Ids(ns) == { ns[i].id : i \in DOMAIN ns }

-----------------------------------------------------------------------------
(* state.sentence.trim().split(/\s+/), lines 351 and 355 *)

RECURSIVE TrimStart(_)
TrimStart(s) ==
  IF s = <<>> THEN s
  ELSE IF Head(s) \in Whitespace THEN TrimStart(Tail(s)) ELSE s

RECURSIVE TrimEnd(_)
TrimEnd(s) ==
  IF s = <<>> THEN s
  ELSE IF s[Len(s)] \in Whitespace THEN TrimEnd(SubSeq(s, 1, Len(s) - 1)) ELSE s

\* The sentence as typed.
NoTrim(s) == s

Trim(s) == TrimEnd(TrimStart(s))

\* split(/\s+/): the pieces between maximal runs of whitespace, an empty
\* piece before a leading run and after a trailing run included.
RECURSIVE SplitFrom(_, _, _, _)
SplitFrom(s, i, cur, acc) ==
  IF i > Len(s) THEN Append(acc, cur)
  ELSE IF s[i] \in Whitespace
       THEN IF i > 1 /\ s[i - 1] \in Whitespace
            THEN SplitFrom(s, i + 1, cur, acc)
            ELSE SplitFrom(s, i + 1, <<>>, Append(acc, cur))
       ELSE SplitFrom(s, i + 1, Append(cur, s[i]), acc)

\* A split on every single blank: how split(' ') would cut the sentence.
SplitEveryBlank(s) ==
  LET RECURSIVE Go(_, _, _)
      Go(i, cur, acc) ==
        IF i > Len(s) THEN Append(acc, cur)
        ELSE IF s[i] \in Whitespace
             THEN Go(i + 1, <<>>, Append(acc, cur))
             ELSE Go(i + 1, Append(cur, s[i]), acc)
  IN Go(1, <<>>, <<>>)

Split(s) == SplitFrom(s, 1, <<>>, <<>>)

-----------------------------------------------------------------------------
(* Records *)

\* TreeNodeType (lines 9-17).  A non-leaf node has no pos and no
\* projectedParent (both undefined): "" and Null.
Node(id, label, x, y, isLeaf, pos, projectedParent) ==
  [ id |-> id, label |-> label, x |-> x, y |-> y, isLeaf |-> isLeaf,
    pos |-> pos, projectedParent |-> projectedParent ]

\* `${from}-${to}` (lines 412, 437, 463): the two decimal numerals joined by
\* a dash, which is read back unambiguously as the pair of numbers.
EdgeId(from, to) == <<from, to>>

\* EdgeType (lines 24-29); controlPoint <<>> is "no override".
Edge(from, to) ==
  [ id |-> EdgeId(from, to), from |-> from, to |-> to, controlPoint |-> <<>> ]

-----------------------------------------------------------------------------
(* Viewport: updateDimensions, lines 261-270 *)

Max2(a, b) == IF a >= b THEN a ELSE b
Min2(a, b) == IF a <= b THEN a ELSE b

\* width: Math.max(600, width - 32); height: Math.max(800, width * 0.8).
updateDimensions(w) ==
  [ width |-> Max2(600, w - 32), height |-> Max2(800, (w * 4) \div 5) ]

-----------------------------------------------------------------------------
(* Layout pass: updatePositions, lines 286-343 *)

\* getChildren (lines 287-288): the nodes the edges from `id` lead to, in
\* edge order.  (find returns undefined for a missing child; a state with
\* such an edge never reaches the effect, see RenderThrows.)
getChildren(ns, es, id) ==
  LET out == SelectSeq(es, LAMBDA e : e.from = id /\ HasNode(ns, e.to))
  IN  [ i \in DOMAIN out |-> FindNode(ns, out[i].to) ]

\* getParent (lines 289-290), as the test `!parent` uses it: the first edge
\* into `id` exists and its parent is a node of the list.
hasParent(ns, es, id) ==
  /\ \E i \in DOMAIN es : es[i].to = id
  /\ LET first == CHOOSE i \in DOMAIN es :
                    es[i].to = id /\ \A j \in DOMAIN es : es[j].to = id => i <= j
     IN  HasNode(ns, es[first].from)

VERTICAL_GAP(dm) == dm.height \div 10
TOP_Y(dm) == dm.height \div 10
BOTTOM_Y(dm) == (dm.height * 8) \div 10
ROOT_X(dm) == dm.width \div 2

\* The leaves of the list in list order, and the 0-based index of a leaf.
leafNodes(ns) == SelectSeq(ns, LAMBDA n : n.isLeaf)

leafIndex(ns, id) ==
  LET ls == leafNodes(ns)
  IN  (CHOOSE i \in DOMAIN ls :
         ls[i].id = id /\ \A j \in DOMAIN ls : ls[j].id = id => i <= j) - 1

\* The three branches of lines 320-336.
isRootS(ns, es, node) ==
  ~node.isLeaf /\ node.label = <<"S">> /\ ~hasParent(ns, es, node.id)

isInternal(ns, es, node) ==
  ~node.isLeaf /\ ~isRootS(ns, es, node) /\ Len(getChildren(ns, es, node.id)) > 0

\* A pass that leaves every leaf where it is.
layoutNodeKeepLeaves(ns, es, dm, node) ==
  LET children == getChildren(ns, es, node.id)
      cx == { children[i].x : i \in DOMAIN children }
      cy == { children[i].y : i \in DOMAIN children }
      others == { ns[i].y : i \in { j \in DOMAIN ns : ns[j].id # node.id } }
  IN  IF node.isLeaf
      THEN node
      ELSE IF isRootS(ns, es, node)
      THEN [ node EXCEPT
               !.x = ROOT_X(dm),
               !.y = IF others = {} THEN TOP_Y(dm)
                     ELSE Min2(TOP_Y(dm), SetMin(others) - VERTICAL_GAP(dm)) ]
      ELSE IF Len(children) > 0
      THEN [ node EXCEPT
               !.x = (SetMin(cx) + SetMax(cx)) \div 2,
               !.y = SetMin(cy) - VERTICAL_GAP(dm) ]
      ELSE node

\* The position lines 317-336 give one node.  Every read of a position is a
\* read of the list as it was before the pass: `nodes` inside the map
\* callback is still the copy of prev.nodes, and getChildren reads
\* state.nodes of the render that scheduled the effect.
layoutNode(ns, es, dm, node) ==
  LET children == getChildren(ns, es, node.id)
      cx == { children[i].x : i \in DOMAIN children }
      cy == { children[i].y : i \in DOMAIN children }
      others == { ns[i].y : i \in { j \in DOMAIN ns : ns[j].id # node.id } }
  IN  IF node.isLeaf
      THEN [ node EXCEPT
               !.x = (dm.width \div (Len(leafNodes(ns)) + 1)) * (leafIndex(ns, node.id) + 1),
               !.y = BOTTOM_Y(dm) ]
      ELSE IF isRootS(ns, es, node)
      THEN [ node EXCEPT
               !.x = ROOT_X(dm),
               \* Math.min() of no value is Infinity
               !.y = IF others = {} THEN TOP_Y(dm)
                     ELSE Min2(TOP_Y(dm), SetMin(others) - VERTICAL_GAP(dm)) ]
      ELSE IF Len(children) > 0
      THEN [ node EXCEPT
               !.x = (SetMin(cx) + SetMax(cx)) \div 2,
               !.y = SetMin(cy) - VERTICAL_GAP(dm) ]
      ELSE node

\* nodes.map(...) of lines 313-339.
updatePositions(ns, es, dm) ==
  [ i \in DOMAIN ns |-> layoutNode(ns, es, dm, ns[i]) ]

\* Every quotient of the pass is a whole number.
LayoutExact(ns, es, dm) ==
  /\ dm.width % (Len(leafNodes(ns)) + 1) = 0
  /\ dm.width % 2 = 0
  /\ dm.height % 10 = 0
  /\ \A i \in DOMAIN ns :
       isInternal(ns, es, ns[i]) =>
         LET children == getChildren(ns, es, ns[i].id)
             cx == { children[k].x : k \in DOMAIN children }
         IN  (SetMin(cx) + SetMax(cx)) % 2 = 0

-----------------------------------------------------------------------------
(* Render and effect after a state update *)

\* Rendering <Edge from={state.nodes.find(..)!} to={..}/> (lines 495-500)
\* reads from.x and to.x (lines 171-174): a TypeError when an end of an edge
\* is no node of the list.  No error boundary catches it; the editor is
\* unmounted.
RenderThrows(ns, es) ==
  \E i \in DOMAIN es : ~HasNode(ns, es[i].from) \/ ~HasNode(ns, es[i].to)

\* The dependency list of the layout effect (line 346).
EffectDepsChanged(es, dm) ==
  \/ dm.width # dimensions.width
  \/ dm.height # dimensions.height
  \/ Len(es) # Len(edges)

\* The state update is rendered; the layout effect runs when one of its
\* dependencies has changed, and its own setState changes none of them.
Commit(ns, es, dm) ==
  LET throws == RenderThrows(ns, es)
      runs == ~throws /\ EffectDepsChanged(es, dm)
  IN  /\ runs => LayoutExact(ns, es, dm)
      /\ nodes' = IF runs THEN updatePositions(ns, es, dm) ELSE ns
      /\ edges' = es
      /\ dimensions' = dm
      /\ crashed' = throws

-----------------------------------------------------------------------------
(* Initial state: useState (lines 248-257) after the mount effect has read  *)
(* the container's width (lines 260-274).                                   *)

Init ==
  /\ sentence = <<>>
  /\ nodes = <<>>
  /\ edges = <<>>
  /\ nextId = 1
  /\ selected = {}
  /\ error = ""
  /\ linking = Null
  /\ dimensions \in { updateDimensions(w) : w \in ContainerWidths }
  /\ crashed = FALSE
  /\ projected = {}
  /\ events = 0

-----------------------------------------------------------------------------
(* Handlers *)

\* Every handler below handles one more user event of the run.
CountEvent == events < MaxEvents /\ events' = events + 1

\* onChange of the sentence input (line 480).
SetSentence ==
  /\ ~crashed
  /\ CountEvent
  /\ \E s \in Sentences : s # sentence /\ sentence' = s
  /\ UNCHANGED <<nodes, edges, nextId, selected, error, linking, dimensions,
                 crashed, projected>>

\* window 'resize' -> updateDimensions (lines 261-272).
Resize ==
  /\ ~crashed
  /\ CountEvent
  /\ \E w \in ContainerWidths :
       /\ updateDimensions(w) # dimensions
       /\ Commit(nodes, edges, updateDimensions(w))
  /\ UNCHANGED <<sentence, nextId, selected, error, linking, projected>>

\* The node list lines 358-375 build from the words.
initialNodes(words, dm) ==
  LET n == Len(words)
      spacing == dm.width \div (n + 1)
  IN  [ i \in 1 .. (n + 1) |->
          IF i <= n
          THEN Node(i, words[i], spacing * i, (dm.height * 875) \div 1000, TRUE, "", Null)
          ELSE Node(n + 1, <<"S">>, dm.width \div 2, (dm.height * 125) \div 1000, FALSE, "", Null) ]

\* The id after the last leaf: the id the "S" node already has.
idOfRoot(words) == Len(words) + 1

\* nextId: words.length + 2 (line 379).
firstFreeId(words) == Len(words) + 2

\* initializeNodes (lines 350-385).
initializeNodes ==
  /\ ~crashed
  /\ CountEvent
  /\ IF Trim(sentence) = <<>>
     THEN /\ error' = ErrNoSentence
          /\ UNCHANGED <<sentence, nodes, edges, nextId, selected, linking,
                         dimensions, crashed, projected>>
     ELSE LET words == Split(Trim(sentence))
          IN  /\ dimensions.width % (Len(words) + 1) = 0
              /\ Commit(initialNodes(words, dimensions), <<>>, dimensions)
              /\ nextId' = firstFreeId(words)
              /\ selected' = {}
              /\ error' = ""
              /\ projected' = {}
              /\ UNCHANGED <<sentence, linking>>

\* onSelect (lines 519-524); the node's onClick is onSelect only while not
\* linking (line 113).  `selected` is an array that the code reads with
\* includes, filter and length only and extends only by an id it does not
\* include: its order is never observed, and it is kept as the set of its
\* elements (length = cardinality).
SelectNode(i) ==
  /\ ~crashed
  /\ CountEvent
  /\ linking = Null
  /\ selected' = IF nodes[i].id \in selected
                 THEN selected \ { nodes[i].id }
                 ELSE selected \cup { nodes[i].id }
  /\ UNCHANGED <<sentence, nodes, edges, nextId, error, linking, dimensions,
                 crashed, projected>>

Select == \E i \in DOMAIN nodes : SelectNode(i)

\* handleLink without its first branch: a click on the pending parent itself
\* draws an edge too.
handleLinkNoCancel(fromId) ==
  IF linking # Null
  THEN /\ Commit(nodes, Append(edges, [ id |-> <<linking, fromId>>, from |-> linking,
                                        to |-> fromId, controlPoint |-> <<>> ]),
                 dimensions)
       /\ linking' = Null
  ELSE /\ linking' = fromId
       /\ UNCHANGED <<nodes, edges, dimensions, crashed>>

\* handleLink (lines 430-446).
handleLink(fromId) ==
  IF linking = fromId
  THEN /\ linking' = Null
       /\ UNCHANGED <<nodes, edges, dimensions, crashed>>
  ELSE IF linking # Null
  THEN /\ Commit(nodes, Append(edges, Edge(linking, fromId)), dimensions)
       /\ linking' = Null
  ELSE /\ linking' = fromId
       /\ UNCHANGED <<nodes, edges, dimensions, crashed>>

\* A click on the link handle of a non-leaf node (lines 148-152), or, while
\* linking, a click on any node (line 113).
LinkNode(i) ==
  /\ ~crashed
  /\ CountEvent
  /\ linking # Null \/ ~nodes[i].isLeaf
  /\ handleLink(nodes[i].id)
  /\ UNCHANGED <<sentence, nextId, selected, error, projected>>

Link == \E i \in DOMAIN nodes : LinkNode(i)

\* state.selected.length < 1
noneSelected == Cardinality(selected) < 1

\* state.selected.length < 2 (line 449)
tooFewSelected == Cardinality(selected) < 2

\* addParent (lines 448-468).  The handler is modelled for every selection;
\* the button that calls it is rendered disabled while fewer than 2 nodes
\* are selected (line 485).
addParent ==
  /\ ~crashed
  /\ CountEvent
  /\ IF tooFewSelected
     THEN /\ error' = ErrSelectTwo
          /\ UNCHANGED <<sentence, nodes, edges, nextId, selected, linking,
                         dimensions, crashed, projected>>
     ELSE LET selectedNodes == SelectSeq(nodes, LAMBDA n : n.id \in selected)
              xs == { selectedNodes[i].x : i \in DOMAIN selectedNodes }
              ys == { selectedNodes[i].y : i \in DOMAIN selectedNodes }
              x == (SetMin(xs) + SetMax(xs)) \div 2
              y == SetMin(ys) - 60
              parent == Node(nextId, <<"N", "e", "w">>, x, y, FALSE, "", Null)
              newEdges == [ i \in DOMAIN selectedNodes |-> Edge(nextId, selectedNodes[i].id) ]
          IN  \* With no selected node left in the list x is NaN and y is
              \* Infinity, and an odd sum gives half a pixel: both are
              \* outside the model.
              /\ Len(selectedNodes) > 0
              /\ (SetMin(xs) + SetMax(xs)) % 2 = 0
              /\ Commit(Append(nodes, parent), edges \o newEdges, dimensions)
              /\ nextId' = nextId + 1
              /\ selected' = {}
              /\ UNCHANGED <<sentence, error, linking, projected>>

\* No old projection is ever removed.
neverProjected(oldNode) == FALSE

\* if (oldNode.projectedParent) (line 395): a node id is truthy.
hasProjection(oldNode) == oldNode.projectedParent # Null

\* The edges that neither leave nor enter the projected parent.
withoutEdgesAt(es, id) == SelectSeq(es, LAMBDA e : e.from # id /\ e.to # id)

\* newState.edges.filter(e => e.from !== oldNode.projectedParent) (line 397).
withoutEdgesFrom(es, id) == SelectSeq(es, LAMBDA e : e.from # id)

\* handleNodeUpdate (lines 387-428).
handleNodeUpdate(updatedNode) ==
  LET oldNode == FindNode(nodes, updatedNode.id)
      posChanged == updatedNode.isLeaf /\ oldNode.pos # updatedNode.pos
      removes == posChanged /\ hasProjection(oldNode)
      projects == posChanged /\ updatedNode.pos \in DOMAIN PROJECTING_POS
      nodes1 == IF removes
                THEN SelectSeq(nodes, LAMBDA n : n.id # oldNode.projectedParent)
                ELSE nodes
      edges1 == IF removes
                THEN withoutEdgesFrom(edges, oldNode.projectedParent)
                ELSE edges
      projectedParent ==
        Node(nextId, PROJECTING_POS[updatedNode.pos], updatedNode.x,
             updatedNode.y - 60, FALSE, "", Null)
      nodes2 == IF projects THEN Append(nodes1, projectedParent) ELSE nodes1
      edges2 == IF projects THEN Append(edges1, Edge(nextId, updatedNode.id)) ELSE edges1
      updated == IF projects
                 THEN [ updatedNode EXCEPT !.projectedParent = nextId ]
                 ELSE updatedNode
      nodes3 == [ i \in DOMAIN nodes2 |->
                    IF nodes2[i].id = updatedNode.id THEN updated ELSE nodes2[i] ]
  IN  /\ Commit(nodes3, edges2, dimensions)
      /\ nextId' = IF projects THEN nextId + 1 ELSE nextId
      /\ projected' = IF projects
                      THEN projected \cup { <<nextId, updatedNode.id>> }
                      ELSE projected
      /\ UNCHANGED <<sentence, selected, error, linking>>

\* onChange of a leaf's POS <select> (lines 135-137).
RetagLeaf(i, p) ==
  /\ ~crashed
  /\ CountEvent
  /\ nodes[i].isLeaf
  /\ p # nodes[i].pos
  /\ handleNodeUpdate([ nodes[i] EXCEPT !.pos = p ])

Retag == \E i \in DOMAIN nodes, p \in PosChoices : RetagLeaf(i, p)

RetagAny == \E i \in DOMAIN nodes, p \in PosOptions : RetagLeaf(i, p)

\* onChange of a node's label input (line 126).
RelabelNode(i, l) ==
  /\ ~crashed
  /\ CountEvent
  /\ l # nodes[i].label
  /\ handleNodeUpdate([ nodes[i] EXCEPT !.label = l ])

Relabel == \E i \in DOMAIN nodes, l \in TypedLabels : RelabelNode(i, l)

\* handleDrag (lines 70-78) of a drag that handleDragStart (lines 61-68)
\* accepted: no drag starts while linking.
DragNodeTo(i, p) ==
  /\ ~crashed
  /\ CountEvent
  /\ linking = Null
  /\ <<nodes[i].x, nodes[i].y>> # <<p.x, p.y>>
  /\ handleNodeUpdate([ nodes[i] EXCEPT !.x = p.x, !.y = p.y ])

DragNode == \E i \in DOMAIN nodes, p \in DragPositions : DragNodeTo(i, p)

\* onDelete of a rendered edge (lines 501-504).
DeleteEdgeAt(i) ==
  /\ ~crashed
  /\ CountEvent
  /\ Commit(nodes, SelectSeq(edges, LAMBDA e : e.id # edges[i].id), dimensions)
  /\ UNCHANGED <<sentence, nextId, selected, error, linking, projected>>

DeleteEdge == \E i \in DOMAIN edges : DeleteEdgeAt(i)

\* handleControlPointDrag (lines 183-196) of the edge rendered for entry i,
\* and onUpdate (lines 505-508): every entry with the id of the dragged
\* edge is replaced by the dragged edge with its new control point.
DragControlPointAt(i, cp) ==
  LET updatedEdge == [ edges[i] EXCEPT !.controlPoint = cp ]
      es == [ k \in DOMAIN edges |->
                IF edges[k].id = updatedEdge.id THEN updatedEdge ELSE edges[k] ]
  IN  /\ ~crashed
      /\ CountEvent
      /\ es # edges
      /\ Commit(nodes, es, dimensions)
      /\ UNCHANGED <<sentence, nextId, selected, error, linking, projected>>

DragControlPoint ==
  \E i \in DOMAIN edges, cp \in ControlPoints : DragControlPointAt(i, cp)

Next ==
  \/ SetSentence
  \/ Resize
  \/ initializeNodes
  \/ Select
  \/ Link
  \/ addParent
  \/ Retag
  \/ Relabel
  \/ DragNode
  \/ DeleteEdge
  \/ DragControlPoint

Spec == Init /\ [][Next]_vars

\* The editor with every option of the POS <select>, without the handlers
\* that change neither the structure nor a tag (resize, relabel, the drag
\* of a node or of a control point).
NextTags ==
  \/ SetSentence
  \/ initializeNodes
  \/ Select
  \/ Link
  \/ addParent
  \/ RetagAny
  \/ DeleteEdge

SpecTags == Init /\ [][NextTags]_vars

-----------------------------------------------------------------------------
(* Properties of initializeNodes *)

\* The positions of the sentence at which a word starts, and the word that
\* starts there: the longest run without whitespace.
WordStarts(s) ==
  { i \in DOMAIN s : s[i] \notin Whitespace /\ (i = 1 \/ s[i - 1] \in Whitespace) }

WordAt(s, i) ==
  LET last == SetMax({ j \in i .. Len(s) : \A k \in i .. j : s[k] \notin Whitespace })
  IN  SubSeq(s, i, last)

\* The k-th word of the sentence, k in 1 .. Cardinality(WordStarts(s)).
Word(s, k) ==
  WordAt(s, CHOOSE i \in WordStarts(s) :
                Cardinality({ j \in WordStarts(s) : j <= i }) = k)

IsBlank(s) == \A i \in DOMAIN s : s[i] \in Whitespace

\* What C1 asks of the state after an initialization with n words.
InitializedFrom(s, ns, es, sel) ==
  LET n == Cardinality(WordStarts(s))
  IN  /\ Len(ns) = n + 1
      /\ \A k \in 1 .. n : ns[k].isLeaf /\ ns[k].label = Word(s, k)
      /\ \A k \in 1 .. (n - 1) : ns[k].x < ns[k + 1].x
      /\ ~ns[n + 1].isLeaf /\ ns[n + 1].label = <<"S">>
      /\ es = <<>>
      /\ sel = {}

\* C1: initializing with a sentence of n >= 1 words replaces the node list by
\* n leaves, one per word in word order with strictly increasing x, plus one
\* non-leaf node labeled "S", and leaves the edge list and the selection
\* empty, whatever the state was before.
C1_InitializeBuildsLeavesAndRoot ==
  [][ (initializeNodes /\ ~IsBlank(sentence))
        => InitializedFrom(sentence, nodes', edges', selected') ]_vars

\* The tree initialized from " b  a ", two leaves and the root, after at
\* least two earlier events.
C1_Witness ==
  /\ sentence = <<" ", "b", " ", " ", "a", " ">>
  /\ events >= 4
  /\ Len(nodes) = 3
  /\ nodes[1].label = <<"b">> /\ nodes[2].label = <<"a">>
  /\ nodes[3].label = <<"S">>
  /\ nodes[1].pos = "" /\ nodes[2].pos = ""
  /\ edges = <<>>
  /\ nextId = 4

\* C2: initializing while the sentence is empty or all whitespace leaves the
\* node list, the edge list, nextId, the selection and linking as they were
\* and sets a non-empty error message.
C2_BlankSentenceOnlySetsError ==
  [][ (initializeNodes /\ IsBlank(sentence))
        => /\ nodes' = nodes
           /\ edges' = edges
           /\ nextId' = nextId
           /\ selected' = selected
           /\ linking' = linking
           /\ error' # "" ]_vars

\* The error of a whitespace-only sentence, shown over an existing tree.
C2_Witness ==
  /\ error = ErrNoSentence
  /\ sentence = <<" ">>
  /\ Len(nodes) > 0

\* C3: add-parent with fewer than 2 selected nodes leaves the node list,
\* the edge list, nextId, the selection and linking as they were and sets a
\* non-empty error message.
C3_AddParentTooFewOnlySetsError ==
  [][ (addParent /\ Cardinality(selected) < 2)
        => /\ nodes' = nodes
           /\ edges' = edges
           /\ nextId' = nextId
           /\ selected' = selected
           /\ linking' = linking
           /\ error' # "" ]_vars

\* The error of add-parent, shown while exactly one node is selected.
C3_Witness ==
  /\ error = ErrSelectTwo
  /\ Cardinality(selected) = 1
  /\ Len(nodes) > 0

-----------------------------------------------------------------------------
(* Properties of addParent *)

\* C4: with N >= 2 entries in the selection, add-parent adds exactly one new
\* non-leaf node and exactly N new edges, each from the new node to a
\* distinct selected node, removes nothing, and empties the selection.
C4_AddParentAddsOneNodeAndNEdges ==
  [][ (addParent /\ Cardinality(selected) >= 2)
        => LET N == Cardinality(selected)
               new == nodes'[Len(nodes')]
               added == SubSeq(edges', Len(edges) + 1, Len(edges'))
           IN  /\ Len(nodes') = Len(nodes) + 1
               /\ \A k \in DOMAIN nodes : nodes'[k].id = nodes[k].id
               /\ ~new.isLeaf
               /\ new.id \notin Ids(nodes)
               /\ Len(edges') = Len(edges) + N
               /\ \A k \in DOMAIN edges : edges'[k] = edges[k]
               /\ \A k \in DOMAIN added :
                    added[k].from = new.id /\ added[k].to \in selected
               /\ \A j, k \in DOMAIN added : j # k => added[j].to # added[k].to
               /\ selected' = {} ]_vars

-----------------------------------------------------------------------------
(* Properties of tagging *)

\* The projecting categories and their phrases, as the specification
\* lists them.
ProjectingTags == {"N", "V", "A", "P", "Adv"}

PhraseOf(p) ==
  CASE p = "N" -> <<"N", "P">>
    [] p = "V" -> <<"V", "P">>
    [] p = "A" -> <<"A", "P">>
    [] p = "P" -> <<"P", "P">>
    [] p = "Adv" -> <<"A", "d", "v", "P">>

\* The leaf's back-reference names a node of the list.
HasProjectedParent(ns, leaf) ==
  leaf.projectedParent # Null /\ HasNode(ns, leaf.projectedParent)

\* The nodes of the list that a projection created for the leaf.
ProjectedParentsOf(ns, pr, leafId) == { q \in Ids(ns) : <<q, leafId>> \in pr }

\* The step is a re-tag of the leaf at index i to p: it gives that leaf the
\* tag p, as the handler does.
Retags(i, p) ==
  /\ nodes[i].isLeaf
  /\ nodes[i].pos # p
  /\ \E j \in DOMAIN nodes' : nodes'[j].id = nodes[i].id /\ nodes'[j].pos = p
  /\ RetagLeaf(i, p)

\* A node without its position.
Unplaced(n) == [ n EXCEPT !.x = 0, !.y = 0 ]

\* C5: tagging a leaf that has no projected parent with a projecting
\* category adds exactly one non-leaf node, labeled with the phrase of the
\* category, and exactly one edge, from that node to the leaf; no other node
\* or edge is added or removed.
C5_ProjectingTagAddsParentAndEdge ==
  [][ \A i \in DOMAIN nodes, p \in ProjectingTags :
        (~HasProjectedParent(nodes, nodes[i]) /\ Retags(i, p))
          => LET new == nodes'[Len(nodes')]
             IN  /\ Len(nodes') = Len(nodes) + 1
                 /\ \A k \in DOMAIN nodes :
                      Unplaced(nodes'[k]) =
                        IF k = i
                        THEN Unplaced([ nodes[i] EXCEPT !.pos = p, !.projectedParent = new.id ])
                        ELSE Unplaced(nodes[k])
                 /\ ~new.isLeaf
                 /\ new.label = PhraseOf(p)
                 /\ new.id \notin Ids(nodes)
                 /\ edges' = Append(edges, [ id |-> <<new.id, nodes[i].id>>,
                                             from |-> new.id, to |-> nodes[i].id,
                                             controlPoint |-> <<>> ]) ]_vars

\* A leaf tagged Adv whose AdvP parent and projection edge are in place,
\* beside a second leaf.
C5_Witness ==
  \E i \in DOMAIN nodes :
    /\ nodes[i].isLeaf /\ nodes[i].pos = "Adv"
    /\ HasProjectedParent(nodes, nodes[i])
    /\ FindNode(nodes, nodes[i].projectedParent).label = <<"A", "d", "v", "P">>
    /\ \E k \in DOMAIN edges :
         edges[k].from = nodes[i].projectedParent /\ edges[k].to = nodes[i].id
    /\ Len(nodes) = 4

\* C6 as stated: re-tagging a leaf that has a projected parent to a
\* non-projecting category removes exactly that parent node and exactly the
\* one projection edge; every other node and edge stays.
C6_RetagRemovesOnlyProjectionEdge ==
  [][ \A i \in DOMAIN nodes, p \in PosOptions \ ProjectingTags :
        (HasProjectedParent(nodes, nodes[i]) /\ Retags(i, p))
          => LET pp == nodes[i].projectedParent
             IN  /\ Ids(nodes') = Ids(nodes) \ {pp}
                 /\ Len(nodes') = Len(nodes) - 1
                 /\ \A j \in DOMAIN edges' :
                      ~(edges'[j].from = pp /\ edges'[j].to = nodes[i].id)
                 /\ \A k \in DOMAIN edges :
                      ~(edges[k].from = pp /\ edges[k].to = nodes[i].id)
                        => \E j \in DOMAIN edges' : edges'[j] = edges[k] ]_vars

\* C6 as the code has it: the re-tag removes exactly the projected parent
\* node and every edge whose parent is that node (the projection edge and
\* any edge drawn from the projected parent since); every other node and
\* every edge with another parent stays, in its place in the list.
C6_RetagRemovesParentAndItsEdges ==
  [][ \A i \in DOMAIN nodes, p \in PosOptions \ ProjectingTags :
        (HasProjectedParent(nodes, nodes[i]) /\ Retags(i, p))
          => LET pp == nodes[i].projectedParent
                 kept == { k \in DOMAIN nodes : nodes[k].id # pp }
             IN  /\ Ids(nodes') = Ids(nodes) \ {pp}
                 /\ Len(nodes') = Len(nodes) - 1
                 /\ \A k \in kept :
                      \E j \in DOMAIN nodes' :
                        Unplaced(nodes'[j]) =
                          IF k = i THEN Unplaced([ nodes[i] EXCEPT !.pos = p ])
                          ELSE Unplaced(nodes[k])
                 /\ edges' = SelectSeq(edges, LAMBDA e : e.from # pp) ]_vars

\* A leaf with a non-projecting tag whose projected parent has been removed,
\* while an edge drawn before the re-tag is still there.
C6_Witness ==
  \E i \in DOMAIN nodes :
    /\ nodes[i].isLeaf /\ nodes[i].pos = "aux"
    /\ \E pr \in projected : pr[2] = nodes[i].id /\ ~HasNode(nodes, pr[1])
    /\ Len(edges) > 0
    /\ ~crashed

\* C7: each leaf has at most one projected parent in the node list; a re-tag
\* from one projecting category to another removes the old projected node
\* and its edge and adds a new one, so the leaf has exactly one.
C7_OneProjectedParentPerLeaf ==
  [][ /\ \A k \in DOMAIN nodes' :
           nodes'[k].isLeaf
             => Cardinality(ProjectedParentsOf(nodes', projected', nodes'[k].id)) <= 1
      /\ \A i \in DOMAIN nodes, p \in ProjectingTags :
           ( /\ HasProjectedParent(nodes, nodes[i])
             /\ nodes[i].pos \in ProjectingTags
             /\ Retags(i, p) )
             => LET old == nodes[i].projectedParent
                    leaf == FindNode(nodes', nodes[i].id)
                    new == leaf.projectedParent
                IN  /\ old \notin Ids(nodes')
                    /\ \A k \in DOMAIN edges' : edges'[k].from # old
                    /\ new # old
                    /\ HasProjectedParent(nodes', leaf)
                    /\ FindNode(nodes', new).label = PhraseOf(p)
                    /\ \E k \in DOMAIN edges' :
                         edges'[k].from = new /\ edges'[k].to = leaf.id
                    /\ ProjectedParentsOf(nodes', projected', leaf.id) = {new}
                    /\ Len(nodes') = Len(nodes)
    ]_vars

\* A leaf re-tagged from N straight to V: its first projected parent is gone
\* and its second one is in the list.
C7_Witness ==
  /\ events = 4
  /\ \E i \in DOMAIN nodes :
       /\ nodes[i].isLeaf /\ nodes[i].pos = "V"
       /\ HasProjectedParent(nodes, nodes[i])
       /\ \E pr \in projected :
            /\ pr[1] # nodes[i].projectedParent
            /\ pr[2] = nodes[i].id
            /\ ~HasNode(nodes, pr[1])

\* C8: a re-tag to a non-projecting value (aux, Det, PNP) never creates a
\* node or an edge and never moves nextId; for a leaf with no projected
\* parent it changes nothing but that leaf's tag.
C8_NonProjectingTagCreatesNothing ==
  [][ \A i \in DOMAIN nodes, p \in {"aux", "Det", "PNP"} :
        Retags(i, p)
          => /\ Ids(nodes') \subseteq Ids(nodes)
             /\ Len(nodes') <= Len(nodes)
             /\ \A k \in DOMAIN edges' : \E j \in DOMAIN edges : edges'[k] = edges[j]
             /\ Len(edges') <= Len(edges)
             /\ nextId' = nextId
             /\ ~HasProjectedParent(nodes, nodes[i])
                  => /\ nodes' = [ nodes EXCEPT ![i].pos = p ]
                     /\ edges' = edges ]_vars

\* A leaf tagged PNP that never had a projected parent, beside a leaf that
\* has one.
C8_Witness ==
  \E i, k \in DOMAIN nodes :
    /\ nodes[i].isLeaf /\ nodes[i].pos = "PNP" /\ nodes[i].projectedParent = Null
    /\ nodes[k].isLeaf /\ HasProjectedParent(nodes, nodes[k])

-----------------------------------------------------------------------------
(* Properties of the layout pass and of edge deletion *)

\* C9: a second layout pass over the same nodes, edges and viewport gives
\* every node the position the first pass gave it.
C9_LayoutIdempotent ==
  [][ ( /\ ~crashed'
        /\ EffectDepsChanged(edges', dimensions')
        /\ LayoutExact(nodes', edges', dimensions') )
        => updatePositions(nodes', edges', dimensions') = nodes' ]_vars

\* C10: deleting an edge removes exactly that one edge: the edge list is the
\* old one without the entry deleted, one shorter, and no node is added or
\* removed.
C10_DeleteRemovesExactlyOneEdge ==
  [][ \A k \in DOMAIN edges :
        DeleteEdgeAt(k)
          => /\ Len(edges') = Len(edges) - 1
             /\ edges' = [ j \in 1 .. (Len(edges) - 1) |->
                             IF j < k THEN edges[j] ELSE edges[j + 1] ]
             /\ Len(nodes') = Len(nodes)
             /\ \A j \in DOMAIN nodes : Unplaced(nodes'[j]) = Unplaced(nodes[j]) ]_vars

-----------------------------------------------------------------------------
(* Properties of linking *)

\* C11: from the not-linking state a click on node A's link handle makes A
\* the pending parent and leaves the edges alone; while A is pending, a click
\* on A returns to not-linking with the edge list unchanged, and a click on
\* another node B appends exactly one edge, with parent A and child B, and
\* returns to not-linking.  No step of linking adds an edge from a node to
\* itself.
C11_LinkingProtocol ==
  [][ \A i \in DOMAIN nodes :
        LinkNode(i)
          => LET B == nodes[i].id
             IN  /\ linking = Null
                   => linking' = B /\ edges' = edges /\ ~nodes[i].isLeaf
                 /\ (linking # Null /\ linking = B)
                   => linking' = Null /\ edges' = edges
                 /\ (linking # Null /\ linking # B)
                   => /\ linking' = Null
                      /\ Len(edges') = Len(edges) + 1
                      /\ SubSeq(edges', 1, Len(edges)) = edges
                      /\ edges'[Len(edges')].from = linking
                      /\ edges'[Len(edges')].to = B
                 /\ \A k \in (DOMAIN edges') \ (DOMAIN edges) :
                      edges'[k].from # edges'[k].to
                 /\ Ids(nodes') = Ids(nodes) ]_vars

\* Not linking, with an edge that only linking can have drawn: its parent is
\* the "S" node of the initialization, which neither add-parent nor a
\* projection gives a child.
C11_Witness ==
  /\ linking = Null
  /\ ~crashed
  /\ \E k \in DOMAIN edges :
       /\ HasNode(nodes, edges[k].from)
       /\ FindNode(nodes, edges[k].from).label = <<"S">>
       /\ edges[k].from < Len(leafNodes(nodes)) + 2
       /\ edges[k].from # edges[k].to

-----------------------------------------------------------------------------
(* Properties of the layout, as the specification states its rules *)

\* The identifiers of the edges in list order.
EdgeIds(es) == [ k \in DOMAIN es |-> es[k].id ]

\* The step changes the node collection or the edge collection.
StructureChanges ==
  Ids(nodes') # Ids(nodes) \/ EdgeIds(edges') # EdgeIds(edges)

\* The children of a node, as positions in the node list.
ChildrenOf(ns, es, id) ==
  { k \in DOMAIN ns : \E e \in DOMAIN es : es[e].from = id /\ es[e].to = ns[k].id }

\* Rule for leaves: the baseline, evenly spaced in list order.
LeafPlaced(ns, dm, k) ==
  LET before == Cardinality({ j \in 1 .. k : ns[j].isLeaf })
      total == Cardinality({ j \in DOMAIN ns : ns[j].isLeaf })
  IN  /\ ns[k].y * 10 = dm.height * 8
      /\ ns[k].x * (total + 1) = before * dm.width

\* Rule for the unparented "S" root: centred, at or above the top margin and
\* at least one gap above the highest other node.
RootPlaced(ns, dm, k) ==
  /\ ns[k].x * 2 = dm.width
  /\ ns[k].y * 10 <= dm.height
  /\ \A j \in DOMAIN ns :
       ns[j].id # ns[k].id => ns[k].y * 10 <= ns[j].y * 10 - dm.height

\* Rule for any other node with children: over the midpoint of its
\* children, one gap above the highest child.
InternalPlaced(ns, es, dm, k) ==
  LET ch == ChildrenOf(ns, es, ns[k].id)
      cx == { ns[c].x : c \in ch }
      cy == { ns[c].y : c \in ch }
  IN  /\ ns[k].x * 2 = SetMin(cx) + SetMax(cx)
      /\ ns[k].y * 10 = SetMin(cy) * 10 - dm.height

\* The node is the non-leaf "S" that no edge enters.
IsUnparentedS(ns, es, k) ==
  /\ ~ns[k].isLeaf
  /\ ns[k].label = <<"S">>
  /\ \A e \in DOMAIN es : es[e].to # ns[k].id

\* Every node is where the three rules put it.
PlacedByRules(ns, es, dm) ==
  \A k \in DOMAIN ns :
    IF ns[k].isLeaf THEN LeafPlaced(ns, dm, k)
    ELSE IF IsUnparentedS(ns, es, k) THEN RootPlaced(ns, dm, k)
    ELSE ChildrenOf(ns, es, ns[k].id) # {} => InternalPlaced(ns, es, dm, k)

\* C12: every operation that changes the node collection or the edge
\* collection is followed by a layout recomputation: when it has settled,
\* every node is at the position the layout rules assign for the new
\* structure.
C12_StructureChangeIsLaidOut ==
  [][ (StructureChanges /\ ~crashed')
        => PlacedByRules(nodes', edges', dimensions') ]_vars

\* The step ends with a layout pass: the render did not throw and a
\* dependency of the layout effect changed.
LayoutPassRan ==
  ~crashed' /\ EffectDepsChanged(edges', dimensions')

\* C13: after a layout pass every non-leaf node that has a child and is not
\* the unparented "S" root has x at the midpoint of the smallest and largest
\* x of its children and y one vertical gap above the smallest y of its
\* children, the children's coordinates being those after the same pass.
C13_InternalOverChildrenAfterPass ==
  [][ LayoutPassRan
        => \A k \in DOMAIN nodes' :
             ( /\ ~nodes'[k].isLeaf
               /\ ~IsUnparentedS(nodes', edges', k)
               /\ ChildrenOf(nodes', edges', nodes'[k].id) # {} )
               => InternalPlaced(nodes', edges', dimensions', k) ]_vars

\* C14: after a layout pass every leaf is on the baseline y = 0.8 x height
\* and the k-th leaf in list order has x = k * width / (leaves + 1), also a
\* leaf that a drag had moved before the pass.
C14_LeavesOnBaselineAfterPass ==
  [][ LayoutPassRan
        => \A k \in DOMAIN nodes' :
             nodes'[k].isLeaf => LeafPlaced(nodes', dimensions', k) ]_vars

\* A leaf back in its place on the baseline while its parent sits one gap
\* above the drag position: the pass that placed both found the leaf where
\* the drag had left it, and no other step puts a node there.
C14_Witness ==
  \E k, j \in DOMAIN nodes, p \in DragPositions :
    /\ nodes[k].isLeaf
    /\ LeafPlaced(nodes, dimensions, k)
    /\ ~nodes[j].isLeaf
    /\ ChildrenOf(nodes, edges, nodes[j].id) = {k}
    /\ nodes[j].x = p.x
    /\ nodes[j].y = p.y - VERTICAL_GAP(dimensions)
    /\ <<nodes[k].x, nodes[k].y>> # <<p.x, p.y>>
    /\ ~crashed

\* C15: after a layout pass the unparented non-leaf "S" is at x = width / 2,
\* at or above the top margin 0.1 x height, and at least one vertical gap
\* above the highest other node as placed by the same pass.
C15_RootAboveEveryNodeAfterPass ==
  [][ LayoutPassRan
        => \A k \in DOMAIN nodes' :
             IsUnparentedS(nodes', edges', k)
               => RootPlaced(nodes', dimensions', k) ]_vars

-----------------------------------------------------------------------------
(* Properties of the control points *)

\* The entries of the old edge list whose id is still an id of the new one.
Survivors ==
  SelectSeq(edges, LAMBDA e : \E j \in DOMAIN edges' : edges'[j].id = e.id)

\* C16: a control point set by dragging is stored on that edge only and
\* stays as it is under every later operation until the edge is removed:
\* a control-point drag changes the control point of the dragged edge and
\* of no other entry of the edge list, and every other step keeps each
\* edge that it does not remove exactly as it was.
C16_ControlPointStaysOnItsEdge ==
  [][ /\ \A i \in DOMAIN edges, cp \in ControlPoints :
           DragControlPointAt(i, cp)
             => /\ Len(edges') = Len(edges)
                /\ edges'[i] = [ edges[i] EXCEPT !.controlPoint = cp ]
                /\ \A k \in (DOMAIN edges) \ {i} : edges'[k] = edges[k]
      /\ ~(\E i \in DOMAIN edges, cp \in ControlPoints : DragControlPointAt(i, cp))
           => /\ Len(Survivors) <= Len(edges')
              /\ SubSeq(edges', 1, Len(Survivors)) = Survivors ]_vars

-----------------------------------------------------------------------------
(* Invariants of the tree state *)

\* C17: in every reachable state the parent id and the child id of every
\* edge are ids of nodes of the node list.
C17_EdgesReferToNodes ==
  \A k \in DOMAIN edges :
    edges[k].from \in Ids(nodes) /\ edges[k].to \in Ids(nodes)

\* C18: in every reachable state no leaf is the parent of an edge, and the
\* pending parent of linking, when set, is the id of a non-leaf node of the
\* node list.
C18_ParentsAreNonLeaves ==
  /\ \A k \in DOMAIN edges, j \in DOMAIN nodes :
       nodes[j].isLeaf => edges[k].from # nodes[j].id
  /\ linking # Null
       => \E j \in DOMAIN nodes : nodes[j].id = linking /\ ~nodes[j].isLeaf

\* C19: in every reachable state the ids of the nodes of the list are
\* pairwise distinct and each is smaller than nextId.
C19_NodeIdsDistinctBelowNextId ==
  /\ \A j, k \in DOMAIN nodes : j # k => nodes[j].id # nodes[k].id
  /\ \A k \in DOMAIN nodes : nodes[k].id < nextId

\* Nodes of both origins above the initial ones: a projected parent and a
\* node made by add-parent, after an earlier projected parent was removed.
C19_Witness ==
  /\ \E j, k \in DOMAIN nodes :
       /\ nodes[j].label = <<"N", "e", "w">>
       /\ \E l \in DOMAIN nodes : nodes[l].projectedParent = nodes[k].id
       /\ nodes[j].id # nodes[k].id
  /\ \E pr \in projected : ~HasNode(nodes, pr[1])
  /\ nextId > Len(nodes) + 1

\* C20: in every reachable state a leaf's projectedParent is set exactly
\* when the leaf's tag is a projecting category, and when it is set it is
\* the id of a node of the list; a re-tag to a non-projecting category
\* clears it.
C20_BackReferenceFollowsTag ==
  \A k \in DOMAIN nodes :
    nodes[k].isLeaf
      => /\ nodes[k].projectedParent # Null <=> nodes[k].pos \in ProjectingTags
         /\ nodes[k].projectedParent # Null
              => nodes[k].projectedParent \in Ids(nodes)

\* C21: in every reachable state every id of the selection is the id of a
\* node of the node list; a node that a re-tag removes does not stay
\* selected.
C21_SelectionRefersToNodes ==
  selected \subseteq Ids(nodes)

====
